---- MODULE Spec2Model ----
(***************************************************************************)
(* Streaming translation pipeline of the Mistral -> Ollama api-proxy       *)
(* (stacks/mistral/api-proxy/src/handlers/chat.rs, converters.rs).         *)
(*                                                                         *)
(* One streaming request: the producer task spawned by                     *)
(* handle_streaming_request reads chunks from the backend byte stream,     *)
(* decodes them lossily, appends them to `buffer`, extracts newline        *)
(* terminated lines and pushes translated records into a bounded mpsc      *)
(* channel; the response body (consumer) drains that channel.              *)
(*                                                                         *)
(* Text is a sequence of wire symbols.  A symbol is either one byte or an  *)
(* ASCII run the code only ever handles as a whole; Width gives its        *)
(* length in bytes, so buffer.len() is ByteLen(buffer):                    *)
(*   "H"  data:           " "  one whitespace byte     "\n" newline        *)
(*   "D"  [DONE]          "x"  an ASCII byte           "a"  an ASCII byte  *)
(*   "O"  {"id":"1","object":"c","created":0,"model":"m","choices":        *)
(*        [{"index":0,"delta":{"role":"assistant","content":"              *)
(*   "Q"  "}}]}                                                            *)
(*   "N"  {"id":"1","object":"c","created":0,"model":"m","choices":[]}     *)
(*   "R"  as "O" without the "role" member of the delta                    *)
(*   "M"  {"choices":[{"delta":{"role":"assistant","content":"             *)
(*   "Hel", "lo"  the ASCII runs Hel and lo                                *)
(*   "L","T"  the two bytes 0xC3 0xA9 of the UTF-8 encoding of U+00E9      *)
(*   "U+00E9", "U+FFFD"  decoded characters (2 and 3 bytes in a String)    *)
(* Cutting a chunk inside an ASCII run changes nothing the code can see    *)
(* (from_utf8_lossy is the identity on ASCII and lines end at "\n"), so    *)
(* chunk boundaries are drawn between symbols.                             *)
(***************************************************************************)
EXTENDS Integers, Sequences, FiniteSets, TLC

\* ------------------------------------------------------------------ bounds
\* number of lines the backend sends at most
MaxLines == 2

\* AppState.max_line_length (config default 1_000_000), scaled down
max_line_length == 128

\* AppState.channel_buffer_size (config default 100), scaled down
channel_buffer_size == 2

\* ------------------------------------------------------- text primitives
Whitespace == {" ", "\n"}

\* byte length of one symbol of the wire / of one char of a String
Width(c) ==
    CASE c = "H" -> 5
      [] c = "D" -> 6
      [] c = "O" -> 108
      [] c = "Q" -> 5
      [] c = "N" -> 60
      [] c = "R" -> 89
      [] c = "M" -> 52
      [] c = "Hel" -> 3
      [] c = "lo" -> 2
      [] c = "U+00E9" -> 2
      [] c = "U+FFFD" -> 3
      [] OTHER -> 1

RECURSIVE ByteLen(_)
\* str::len / Bytes::len
ByteLen(s) == IF s = <<>> THEN 0 ELSE Width(Head(s)) + ByteLen(Tail(s))

RECURSIVE from_utf8_lossy(_)
\* String::from_utf8_lossy: a well formed sequence decodes to its char, every
\* maximal ill-formed subsequence becomes U+FFFD
from_utf8_lossy(b) ==
    IF b = <<>> THEN <<>>
    ELSE IF Head(b) = "L"
         THEN IF Len(b) >= 2 /\ b[2] = "T"
              THEN <<"U+00E9">> \o from_utf8_lossy(SubSeq(b, 3, Len(b)))
              ELSE <<"U+FFFD">> \o from_utf8_lossy(Tail(b))
    ELSE IF Head(b) = "T"
         THEN <<"U+FFFD">> \o from_utf8_lossy(Tail(b))
    ELSE <<Head(b)>> \o from_utf8_lossy(Tail(b))

\* buffer.find('\n'): index of the first newline, 0 for None
find_newline(s) ==
    IF \E i \in 1..Len(s) : s[i] = "\n"
    THEN CHOOSE i \in 1..Len(s) : s[i] = "\n" /\ \A j \in 1..(i - 1) : s[j] # "\n"
    ELSE 0

\* str::trim
trim(s) ==
    IF \A i \in 1..Len(s) : s[i] \in Whitespace THEN <<>>
    ELSE LET lo == CHOOSE i \in 1..Len(s) :
                      s[i] \notin Whitespace /\ \A j \in 1..(i - 1) : s[j] \in Whitespace
             hi == CHOOSE i \in 1..Len(s) :
                      s[i] \notin Whitespace /\ \A j \in (i + 1)..Len(s) : s[j] \in Whitespace
         IN SubSeq(s, lo, hi)

\* line.strip_prefix("data: ")
has_data_prefix(line) == Len(line) >= 2 /\ line[1] = "H" /\ line[2] = " "
strip_data_prefix(line) == SubSeq(line, 3, Len(line))

\* characters a JSON string may hold unescaped
StringChars == {"a", "x", " ", "H", "D", "Hel", "lo", "U+00E9", "U+FFFD"}

\* serde_json skips whitespace around the value
skip_ws(s) == trim(s)

\* a JSON object of the shape {.. "choices":[{.. "delta":{.. "content":"<c>"}}]}
\* that opens with `head`
is_chunk_json(j, head) ==
    /\ Len(j) >= 2
    /\ j[1] = head
    /\ j[Len(j)] = "Q"
    /\ \A i \in 2..(Len(j) - 1) : j[i] \in StringChars

\* serde_json::from_str::<MistralStreamChunk>(json_str) followed by
\* chunk.choices.first() and choice.delta: the delta, or the reason for none.
\* The derived Deserialize has no default for a field that is not an Option:
\* MistralStreamChunk.id/object/created/model, MistralChoice.index and
\* MistralMessage.role/content are required, so "R" and "M" do not parse.
parse_delta(json_str) ==
    LET j == skip_ws(json_str) IN
    IF j = <<"N">> THEN [kind |-> "no_choice"]
    ELSE IF is_chunk_json(j, "O")
         THEN [kind |-> "delta", role |-> "assistant", content |-> SubSeq(j, 2, Len(j) - 1)]
         ELSE [kind |-> "parse_error"]

\* ---------------------------------------------------------- converters.rs
\* mutant of create_streaming_chunk: the mode of the request is not looked at
create_streaming_chunk_AlwaysNested(model, content, role, chat) ==
    [model |-> model, message |-> [role |-> role, content |-> content], done |-> FALSE]

\* created_at (Utc::now()) is left out of the records: no claim reads it
create_streaming_chunk(model, content, role, chat) ==
    IF chat
    THEN [model |-> model, message |-> [role |-> role, content |-> content], done |-> FALSE]
    ELSE [model |-> model, response |-> content, done |-> FALSE]

create_done_chunk(model) == [done |-> TRUE, model |-> model]

translate_model_name(ollama_name) ==
    CASE ollama_name = "mistral:latest" -> "mistral-7b"
      [] ollama_name = "mistral:7b" -> "mistral-7b"
      [] ollama_name = "mixtral:latest" -> "mixtral-8x7b"
      [] ollama_name = "mixtral:8x7b" -> "mixtral-8x7b"
      [] OTHER -> ollama_name

\* items of the channel: Result<String, String>
OkItem(v) == [ok |-> TRUE, v |-> v]
ErrItem(e) == [ok |-> FALSE, e |-> e]
NoItem == [ok |-> FALSE, e |-> "none"]
OverflowItem == ErrItem("Stream buffer overflow")
TransportErrItem == ErrItem("transport error")

IsPartial(it) == it.ok /\ ~it.v.done
IsFinal(it) == it.ok /\ it.v.done
IsError(it) == ~it.ok

\* content of a Partial, whatever its mode
PartialContent(it) ==
    IF "message" \in DOMAIN it.v THEN it.v.message.content ELSE it.v.response

\* ------------------------------------------------------ what the backend sends
DoneLine == <<"H", " ", "D", "\n">>
DeltaA == <<"H", " ", "O", "a", "Q", "\n">>
DeltaE == <<"H", " ", "O", "L", "T", "Q", "\n">>
NoChoiceLine == <<"H", " ", "N", "\n">>
BadJsonLine == <<"H", " ", "x", "\n">>
NoPrefixLine == <<"x", "\n">>

LineVocabulary == {DoneLine, DeltaA, DeltaE, NoChoiceLine, BadJsonLine, NoPrefixLine}

RECURSIVE StreamsOf(_)
StreamsOf(n) ==
    IF n = 0 THEN {<<>>}
    ELSE LET S == StreamsOf(n - 1) IN S \cup {s \o l : s \in S, l \in LineVocabulary}

RequestModels == {"mistral:latest", "custom-model"}

\* frames of the backend's streaming format that leave out members
DeltaNoRole == <<"H", " ", "R", "a", "Q", "\n">>
DeltaHello == <<"H", " ", "M", "Hel", "lo", "Q", "\n">>

FrameVocabulary == {DeltaNoRole, DeltaHello, DeltaA, DoneLine}

RECURSIVE FrameStreamsOf(_)
FrameStreamsOf(n) ==
    IF n = 0 THEN {<<>>}
    ELSE LET S == FrameStreamsOf(n - 1) IN S \cup {s \o l : s \in S, l \in FrameVocabulary}

\* ------------------------------------------------------------------- state
\* a trimmed line that is the end-of-stream sentinel `data: [DONE]`
IsSentinelLine(line) == has_data_prefix(line) /\ strip_data_prefix(line) = <<"D">>

\* ---------------------------------------------------------------- responses
BAD_GATEWAY == 502
BAD_REQUEST == 400
INTERNAL_SERVER_ERROR == 500
STATUS_OK == 200

request_error(url, source) == [kind |-> "RequestError", message |-> source, url |-> url]

streaming_error(message, endpoint) ==
    [kind |-> "StreamingError", message |-> message, endpoint |-> endpoint]

internal_error(context) == [kind |-> "InternalError", context |-> context]

\* the (status, Json({"error": ...})) pair an AppError turns into; the error
\* string is written as the pieces format! joins
into_response(err) ==
    CASE err.kind = "RequestError" ->
            [status |-> BAD_GATEWAY,
             error |-> <<"Backend request failed: ", err.message, " (URL: ", err.url, ")">>]
      [] err.kind = "JsonError" ->
            [status |-> BAD_REQUEST, error |-> <<"JSON parsing error: ", err.context>>]
      [] err.kind = "StreamingError" ->
            [status |-> INTERNAL_SERVER_ERROR,
             error |-> <<"Streaming error: ", err.message, " (endpoint: ", err.endpoint, ")">>]
      [] err.kind = "InternalError" ->
            [status |-> INTERNAL_SERVER_ERROR,
             error |-> <<"Internal server error: ", err.context>>]

\* the headers of the streaming response; its body is the receiver end (rx)
StreamResponse == [status |-> STATUS_OK, content_type |-> "text/event-stream"]

\* the handler has not returned yet
NoResponse == [status |-> 0]

\* no non-streaming operation has been called
NoCall == [op |-> "none"]

mistral_url == "http://mistral:8080"

chat_url == mistral_url \o "/v1/chat/completions"

\* what reqwest reports when the backend cannot be reached
ConnectErrors == {"connection refused", "operation timed out"}

\* bodies of a non-success backend answer; "Unknown error" stands in for a
\* body that could not be read
ErrorTexts == {"model not found", "Unknown error"}

\* there is no second streaming request
NoRequest == [pc |-> "none"]

Endpoints == {"generate", "chat"}

\* label values of HTTP_REQUESTS_TOTAL; the third label (the error type) is
\* left out
Labels == Endpoints \X {"success", "error"}

ZeroCounts == [l \in Labels |-> 0]

VARIABLES
    upstream,     \* the bytes the backend sends for this request, in order
    pos,          \* how many of them stream.next() has yielded so far
    chunk_start,  \* history: value of pos before the latest chunk was yielded
    is_chat,      \* handle_chat (TRUE) or handle_generate (FALSE)
    model_name,   \* req.model of the MistralChatRequest
    buffer,       \* the producer's String buffer
    pc,           \* producer: "read" | "scan" | "send" | "done"
    resume,       \* where the producer continues after the pending send
    pending,      \* the item of the tx.send(...) the producer is awaiting
    chan,         \* items queued in the mpsc channel
    rx,           \* receiver / body: "open" | "ended" | "aborted" | "disconnected"
    sent,         \* history: every item handed to tx.send, in order
    send_failed,  \* history: some tx.send returned Err (receiver gone)
    delivered,    \* history: frames the body stream yielded to the caller
    frames,       \* history: trimmed lines the producer extracted
    backend,      \* outcome of the handler's initial backend call:
                  \* "pending" | "unreachable" | "rejected" | "success"
    response,     \* what handle_streaming_request returned to the caller
    api,          \* the latest call of a non-streaming operation and its result
    cur,          \* which of two concurrent streaming requests the variables
                  \* above belong to at the moment
    other,        \* the state of the other streaming request, if there is one
    handlers,     \* handle_generate / handle_chat invocations and where they are
    ACTIVE_REQUESTS,      \* the gauge
    HTTP_REQUESTS_TOTAL   \* the counter, by <<endpoint, status>>

vars == <<upstream, pos, chunk_start, is_chat, model_name, buffer, pc, resume, pending,
          chan, rx, sent, send_failed, delivered, frames, backend, response, api,
          cur, other, handlers, ACTIVE_REQUESTS, HTTP_REQUESTS_TOTAL>>

pair_vars == <<cur, other>>

metric_vars == <<handlers, ACTIVE_REQUESTS, HTTP_REQUESTS_TOTAL>>

\* one streaming request, no second one, no handler counted
SingleRequest ==
    /\ cur = 1
    /\ other = NoRequest
    /\ handlers = <<>>
    /\ ACTIVE_REQUESTS = 0
    /\ HTTP_REQUESTS_TOTAL = ZeroCounts

Init ==
    /\ upstream \in StreamsOf(MaxLines)
    /\ pos = 0
    /\ chunk_start = 0
    /\ is_chat \in BOOLEAN
    /\ \E m \in RequestModels : model_name = translate_model_name(m)
    /\ buffer = <<>>
    /\ pc = "read"
    /\ resume = "read"
    /\ pending = NoItem
    /\ chan = <<>>
    /\ rx = "open"
    /\ sent = <<>>
    /\ send_failed = FALSE
    /\ delivered = <<>>
    /\ frames = <<>>
    /\ backend = "success"
    /\ response = StreamResponse
    /\ api = NoCall
    /\ SingleRequest

\* ---------------------------------------------------------------- producer
\* mutant of ReadChunk: the ceiling is never checked
ReadChunk_NoCeiling ==
    /\ pc = "read"
    /\ \E k \in 1..(Len(upstream) - pos) :
         /\ pos' = pos + k
         /\ chunk_start' = pos
         /\ buffer' = buffer \o from_utf8_lossy(SubSeq(upstream, pos + 1, pos + k))
         /\ pc' = "scan"
    /\ UNCHANGED <<pair_vars, metric_vars, api, backend, response, upstream, is_chat, model_name, pending, resume, chan, rx, sent,
                   send_failed, delivered, frames>>

\* mutant of ReadChunk: the ceiling is checked before the append, on the
\* bytes left over from earlier chunks
ReadChunk_CheckBeforeAppend ==
    /\ pc = "read"
    /\ \E k \in 1..(Len(upstream) - pos) :
         /\ pos' = pos + k
         /\ chunk_start' = pos
         /\ buffer' = buffer \o from_utf8_lossy(SubSeq(upstream, pos + 1, pos + k))
         /\ IF ByteLen(buffer) > max_line_length
            THEN /\ pending' = OverflowItem
                 /\ pc' = "send"
                 /\ resume' = "exit"
            ELSE /\ pc' = "scan"
                 /\ UNCHANGED <<pending, resume>>
    /\ UNCHANGED <<pair_vars, metric_vars, api, backend, response, upstream, is_chat, model_name, chan, rx, sent, send_failed,
                   delivered, frames>>

\* stream.next() yields Ok(chunk): lossy decode, append, ceiling check
ReadChunk ==
    /\ pc = "read"
    /\ \E k \in 1..(Len(upstream) - pos) :
         LET chunk == SubSeq(upstream, pos + 1, pos + k)
             chunk_str == from_utf8_lossy(chunk)
             buf == buffer \o chunk_str
         IN /\ pos' = pos + k
            /\ chunk_start' = pos
            /\ buffer' = buf
            /\ IF ByteLen(buf) > max_line_length
               THEN /\ pending' = OverflowItem
                    /\ pc' = "send"
                    /\ resume' = "exit"
               ELSE /\ pc' = "scan"
                    /\ UNCHANGED <<pending, resume>>
    /\ UNCHANGED <<pair_vars, metric_vars, api, backend, response, upstream, is_chat, model_name, chan, rx, sent, send_failed,
                   delivered, frames>>

\* mutant of ReadError: the error is reported but the loop is not left
ReadError_NoBreak ==
    /\ pc = "read"
    /\ pending' = TransportErrItem
    /\ pc' = "send"
    /\ resume' = "read"
    /\ UNCHANGED <<pair_vars, metric_vars, api, backend, response, upstream, pos, chunk_start, is_chat, model_name, buffer, chan, rx,
                   sent, send_failed, delivered, frames>>

\* stream.next() yields Err(e)
ReadError ==
    /\ pc = "read"
    /\ pending' = TransportErrItem
    /\ pc' = "send"
    /\ resume' = "exit"
    /\ UNCHANGED <<pair_vars, metric_vars, api, backend, response, upstream, pos, chunk_start, is_chat, model_name, buffer, chan, rx, sent,
                   send_failed, delivered, frames>>

\* mutant of ReadEnd: a Final is synthesized when the transport ends
ReadEnd_SyntheticFinal ==
    /\ pc = "read"
    /\ pending' = OkItem(create_done_chunk(model_name))
    /\ pc' = "send"
    /\ resume' = "exit"
    /\ UNCHANGED <<pair_vars, metric_vars, api, backend, response, upstream, pos, chunk_start, is_chat, model_name, buffer, chan, rx,
                   sent, send_failed, delivered, frames>>

\* mutant of ReadEnd: what is left in the buffer is decoded as a last line
ReadEnd_FlushesTail ==
    /\ pc = "read"
    /\ IF IsSentinelLine(trim(buffer))
       THEN /\ pending' = OkItem(create_done_chunk(model_name))
            /\ frames' = Append(frames, trim(buffer))
            /\ pc' = "send"
            /\ resume' = "exit"
       ELSE /\ pc' = "done"
            /\ UNCHANGED <<pending, frames, resume>>
    /\ buffer' = <<>>
    /\ UNCHANGED <<pair_vars, metric_vars, api, backend, response, upstream, pos, chunk_start, is_chat, model_name, chan, rx,
                   sent, send_failed, delivered>>

\* stream.next() yields None: the task returns, buffer and tx are dropped
ReadEnd ==
    /\ pc = "read"
    /\ pc' = "done"
    /\ buffer' = <<>>
    /\ UNCHANGED <<pair_vars, metric_vars, api, backend, response, upstream, pos, chunk_start, is_chat, model_name, resume, pending, chan, rx,
                   sent, send_failed, delivered, frames>>

\* mutant of ScanLine: a line that is no sentinel and no delta is reported
\* as an error and ends the stream
ScanLine_ErrorOnBadLine ==
    /\ pc = "scan"
    /\ LET line_end == find_newline(buffer) IN
       IF line_end = 0
       THEN /\ pc' = "read"
            /\ UNCHANGED <<buffer, pending, resume, frames>>
       ELSE LET line == trim(SubSeq(buffer, 1, line_end))
                delta == parse_delta(strip_data_prefix(line))
            IN /\ buffer' = SubSeq(buffer, line_end + 1, Len(buffer))
               /\ frames' = Append(frames, line)
               /\ IF has_data_prefix(line) /\ strip_data_prefix(line) = <<"D">>
                  THEN /\ pending' = OkItem(create_done_chunk(model_name))
                       /\ pc' = "send"
                       /\ resume' = "read"
                  ELSE IF has_data_prefix(line) /\ delta.kind = "delta"
                  THEN /\ pending' =
                            OkItem(create_streaming_chunk(model_name, delta.content,
                                                          delta.role, is_chat))
                       /\ pc' = "send"
                       /\ resume' = "scan"
                  ELSE /\ pending' = ErrItem("decode error")
                       /\ pc' = "send"
                       /\ resume' = "exit"
    /\ UNCHANGED <<pair_vars, metric_vars, api, backend, response, upstream, pos, chunk_start, is_chat, model_name, chan, rx, sent,
                   send_failed, delivered>>

\* one turn of `while let Some(line_end) = buffer.find('\n')`
ScanLine ==
    /\ pc = "scan"
    /\ LET line_end == find_newline(buffer) IN
       IF line_end = 0
       THEN /\ pc' = "read"
            /\ UNCHANGED <<buffer, pending, resume, frames>>
       ELSE LET line == trim(SubSeq(buffer, 1, line_end))
                delta == parse_delta(strip_data_prefix(line))
            IN /\ buffer' = SubSeq(buffer, line_end + 1, Len(buffer))
               /\ frames' = Append(frames, line)
               /\ IF has_data_prefix(line)
                  THEN IF strip_data_prefix(line) = <<"D">>
                       THEN /\ pending' = OkItem(create_done_chunk(model_name))
                            /\ pc' = "send"
                            /\ resume' = "read"
                       ELSE IF delta.kind = "delta"
                       THEN /\ pending' =
                                 OkItem(create_streaming_chunk(model_name, delta.content,
                                                               delta.role, is_chat))
                            /\ pc' = "send"
                            /\ resume' = "scan"
                       ELSE UNCHANGED <<pc, pending, resume>>
                  ELSE UNCHANGED <<pc, pending, resume>>
    /\ UNCHANGED <<pair_vars, metric_vars, api, backend, response, upstream, pos, chunk_start, is_chat, model_name, chan, rx, sent, send_failed,
                   delivered>>

\* the producer's continuation after a completed tx.send(...).await
AfterSend ==
    /\ pending' = NoItem
    /\ IF resume = "exit"
       THEN pc' = "done" /\ buffer' = <<>> /\ resume' = "read"
       ELSE pc' = resume /\ resume' = "read" /\ UNCHANGED buffer

\* mutant of SendOk: an unbounded channel, the push never waits for room
SendOk_Unbounded ==
    /\ pc = "send"
    /\ rx = "open"
    /\ chan' = Append(chan, pending)
    /\ sent' = Append(sent, pending)
    /\ AfterSend
    /\ UNCHANGED <<pair_vars, metric_vars, api, backend, response, upstream, pos, chunk_start, is_chat, model_name, rx, send_failed,
                   delivered, frames>>

\* tx.send(item).await returns Ok: there was room in the channel
SendOk ==
    /\ pc = "send"
    /\ rx = "open"
    /\ Len(chan) < channel_buffer_size
    /\ chan' = Append(chan, pending)
    /\ sent' = Append(sent, pending)
    /\ AfterSend
    /\ UNCHANGED <<pair_vars, metric_vars, api, backend, response, upstream, pos, chunk_start, is_chat, model_name, rx, send_failed, delivered, frames>>

\* tx.send(item).await returns Err: the receiver is gone; `let _ =` drops it
SendClosed ==
    /\ pc = "send"
    /\ rx # "open"
    /\ sent' = Append(sent, pending)
    /\ send_failed' = TRUE
    /\ AfterSend
    /\ UNCHANGED <<pair_vars, metric_vars, api, backend, response, upstream, pos, chunk_start, is_chat, model_name, chan, rx, delivered, frames>>

\* ---------------------------------------------------------------- consumer
\* format!("data: {data}\n\n")
sse_frame(data) == <<"data: ", data, "\n\n">>

\* mutant of Recv: the body takes the newest queued item first
Recv_NewestFirst ==
    /\ rx = "open"
    /\ chan # <<>>
    /\ IF chan[Len(chan)].ok
       THEN /\ delivered' = Append(delivered, sse_frame(chan[Len(chan)].v))
            /\ chan' = SubSeq(chan, 1, Len(chan) - 1)
            /\ UNCHANGED rx
       ELSE /\ rx' = "aborted"
            /\ chan' = <<>>
            /\ UNCHANGED delivered
    /\ UNCHANGED <<pair_vars, metric_vars, api, backend, response, upstream, pos, chunk_start, is_chat, model_name, buffer, pc, resume,
                   pending, sent, send_failed, frames>>

\* the body stream polls the receiver and gets an item
Recv ==
    /\ rx = "open"
    /\ chan # <<>>
    /\ IF Head(chan).ok
       THEN /\ delivered' = Append(delivered, sse_frame(Head(chan).v))
            /\ chan' = Tail(chan)
            /\ UNCHANGED rx
       ELSE /\ rx' = "aborted"
            /\ chan' = <<>>
            /\ UNCHANGED delivered
    /\ UNCHANGED <<pair_vars, metric_vars, api, backend, response, upstream, pos, chunk_start, is_chat, model_name, buffer, pc, resume, pending,
                   sent, send_failed, frames>>

\* mutant of RecvEnd: an empty queue is taken for the end of the stream
RecvEnd_Early ==
    /\ rx = "open"
    /\ chan = <<>>
    /\ rx' = "ended"
    /\ UNCHANGED <<pair_vars, metric_vars, api, backend, response, upstream, pos, chunk_start, is_chat, model_name, buffer, pc, resume,
                   pending, chan, sent, send_failed, delivered, frames>>

\* the receiver yields None: channel empty and every sender dropped
RecvEnd ==
    /\ rx = "open"
    /\ chan = <<>>
    /\ pc = "done"
    /\ rx' = "ended"
    /\ UNCHANGED <<pair_vars, metric_vars, api, backend, response, upstream, pos, chunk_start, is_chat, model_name, buffer, pc, resume, pending,
                   chan, sent, send_failed, delivered, frames>>

\* the caller disconnects: the body, and with it the receiver, is dropped
Disconnect ==
    /\ rx = "open"
    /\ rx' = "disconnected"
    /\ chan' = <<>>
    /\ UNCHANGED <<pair_vars, metric_vars, api, backend, response, upstream, pos, chunk_start, is_chat, model_name, buffer, pc, resume, pending,
                   sent, send_failed, delivered, frames>>

Next ==
    \/ ReadChunk
    \/ ReadError
    \/ ReadEnd
    \/ ScanLine
    \/ SendOk
    \/ SendClosed
    \/ Recv
    \/ RecvEnd
    \/ Disconnect

Spec == Init /\ [][Next]_vars

TypeOK ==
    /\ pos \in 0..Len(upstream)
    /\ pc \in {"call", "failed", "idle", "read", "scan", "send", "done"}
    /\ rx \in {"none", "open", "ended", "aborted", "disconnected"}
    /\ backend \in {"pending", "unreachable", "rejected", "success"}
    /\ Len(chan) <= channel_buffer_size

\* ----------------------------------------------------------------- helpers
FinalSent == \E i \in 1..Len(sent) : IsFinal(sent[i])
ErrorSent == \E i \in 1..Len(sent) : IsError(sent[i])
NumFinals == Cardinality({i \in 1..Len(sent) : IsFinal(sent[i])})
NumErrors == Cardinality({i \in 1..Len(sent) : IsError(sent[i])})
IsSentinelFrame(line) == has_data_prefix(line) /\ strip_data_prefix(line) = <<"D">>
\* the bytes the transport has yielded so far, and the latest chunk
Fed == SubSeq(upstream, 1, pos)
LastChunk == SubSeq(upstream, chunk_start + 1, pos)

\* ------------------------------------------------------------------ claims

\* C1: once a Final (done=true) has been pushed, no Partial (done=false) is
\* pushed or delivered after it; a done=true record is the last of the body.
C1_NoPartialAfterFinal ==
    /\ \A i \in 1..Len(sent) : \A j \in (i + 1)..Len(sent) :
          IsFinal(sent[i]) => ~IsPartial(sent[j])
    /\ \A i \in 1..Len(delivered) : \A j \in (i + 1)..Len(delivered) :
          delivered[i][2].done => delivered[j][2].done

\* C2: at most one Final per streaming response, and exactly one once a
\* complete sentinel line has been decoded and its push has completed.
C2_ExactlyOneFinal ==
    /\ NumFinals <= 1
    /\ ((\E i \in 1..Len(frames) : IsSentinelFrame(frames[i])) /\ pc # "send")
          => NumFinals = 1

\* C3: after the Final has been pushed the producer reads no further chunk
\* from the transport and extracts no further line from the buffer.
C3_StopsAfterFinal ==
    [][FinalSent => (pos' = pos /\ frames' = frames)]_vars

\* C4: after a push found the channel closed (receiver gone) the producer
\* performs no further transport read.
C4_NoReadAfterClosedPush ==
    [][send_failed => pos' = pos]_vars

\* C5: a transport error or a buffer overflow makes the producer push one
\* error item and exit: at most one error item per response, it is the last
\* item pushed, and no item is pushed and no chunk is read after it.
C5_SingleTerminalError ==
    /\ [](/\ NumErrors <= 1
          /\ \A i \in 1..Len(sent) : IsError(sent[i]) => i = Len(sent)
          /\ (pc = "send" /\ IsError(pending)) => resume = "exit"
          /\ ErrorSent => pc = "done")
    /\ [][ErrorSent => (pos' = pos /\ sent' = sent /\ frames' = frames)]_vars
    /\ [][(pc = "send" /\ IsError(pending) /\ pc' # "send")
             => (pc' = "done" /\ sent' = Append(sent, pending))]_vars

\* C5 witness: an error item was pushed after an earlier record and the
\* producer has exited with part of the upstream unread.
C5_Witness ==
    /\ pc = "done"
    /\ Len(sent) >= 2
    /\ IsError(sent[Len(sent)])
    /\ pos < Len(upstream)

\* C6 as stated: at every point of the stream's lifetime the buffer is no
\* longer than the ceiling.
C6_BufferNeverExceedsCeiling == ByteLen(buffer) <= max_line_length

\* C6 amended: whenever the producer reads the transport or scans for lines
\* the buffer is no longer than the ceiling; it is longer only between the
\* append of the chunk that crossed the ceiling and the exit of the task,
\* while the overflow error is being pushed, and that chunk is kept whole.
C6_BufferWithinCeilingWhileRunning ==
    /\ pc \in {"read", "scan", "done"} => ByteLen(buffer) <= max_line_length
    /\ ByteLen(buffer) > max_line_length
          => /\ pc = "send"
             /\ pending = OverflowItem
             /\ resume = "exit"
             /\ Len(buffer) >= Len(from_utf8_lossy(LastChunk))
             /\ SubSeq(buffer, Len(buffer) - Len(from_utf8_lossy(LastChunk)) + 1, Len(buffer))
                   = from_utf8_lossy(LastChunk)

\* C6 witness: a chunk crossed the ceiling and the producer is pushing the
\* overflow error with the whole chunk in the buffer.
C6_Witness ==
    /\ ByteLen(buffer) > max_line_length
    /\ pc = "send"
    /\ pending = OverflowItem
    /\ chunk_start > 0

\* C7: a single chunk longer than the ceiling yields the overflow error and
\* nothing else: no line of it is extracted and no Partial or Final is pushed
\* from that read on.
C7_OversizeChunkOnlyOverflows ==
    /\ [][(pos' > pos /\ ByteLen(SubSeq(upstream, pos + 1, pos')) > max_line_length)
             => /\ pc' = "send"
                /\ pending' = OverflowItem
                /\ resume' = "exit"
                /\ frames' = frames
                /\ sent' = sent]_vars
    /\ [][(pc = "send" /\ pending = OverflowItem)
             => /\ frames' = frames
                /\ pos' = pos
                /\ pc' \in {"send", "done"}
                /\ sent' \in {sent, Append(sent, OverflowItem)}]_vars
    /\ [][pc = "done" => (pc' = "done" /\ sent' = sent /\ frames' = frames)]_vars

\* C7 witness: the first chunk is longer than the ceiling and starts with a
\* complete, valid delta frame; the producer reports overflow.
C7_Witness ==
    /\ pc = "send"
    /\ pending = OverflowItem
    /\ chunk_start = 0
    /\ ByteLen(LastChunk) > max_line_length
    /\ Len(LastChunk) >= Len(DeltaA)
    /\ SubSeq(LastChunk, 1, Len(DeltaA)) = DeltaA
    /\ sent = <<>>
    /\ frames = <<>>

RECURSIVE AllLines(_)
\* the trimmed lines of a text, in order (bytes after the last newline left out)
AllLines(text) ==
    LET e == find_newline(text) IN
    IF e = 0 THEN <<>>
    ELSE <<trim(SubSeq(text, 1, e))>> \o AllLines(SubSeq(text, e + 1, Len(text)))

\* the frames obtained when the bytes arrive as one chunk
OneChunkFrames(bytes) == AllLines(from_utf8_lossy(bytes))

\* C8: for a byte sequence of newline terminated frames (no sentinel, within
\* the ceiling), the frames extracted are the same for every way of cutting
\* the sequence into chunks as when it is fed as one chunk.
C8_FramesIndependentOfSplit ==
    (/\ pc = "read"
     /\ buffer = <<>>
     /\ \A i \in 1..pos : upstream[i] # "D"
     /\ ByteLen(from_utf8_lossy(Fed)) <= max_line_length)
        => frames = OneChunkFrames(Fed)

\* every frame of the bytes is a well formed delta frame
OnlyDeltaFrames(bytes) ==
    \A i \in 1..Len(OneChunkFrames(bytes)) :
        LET l == OneChunkFrames(bytes)[i] IN
        /\ has_data_prefix(l)
        /\ ~IsSentinelFrame(l)
        /\ parse_delta(strip_data_prefix(l)).kind = "delta"

\* C9: for a sequence of well formed delta frames (no sentinel, no fatal
\* error) the producer pushes one Partial per frame, in order, each with the
\* content of its frame.
C9_PartialsCarryDeltaContents ==
    (/\ pc = "read"
     /\ buffer = <<>>
     /\ OnlyDeltaFrames(Fed))
        => /\ Len(sent) = Len(OneChunkFrames(Fed))
           /\ \A i \in 1..Len(sent) :
                 /\ IsPartial(sent[i])
                 /\ PartialContent(sent[i]) =
                       parse_delta(strip_data_prefix(OneChunkFrames(Fed)[i])).content

\* C10: the channel never holds more than channel_buffer_size items, and
\* while it is full the producer stays suspended in its push: no read, no
\* push, no line extracted until the consumer takes an item (or goes away).
C10_BoundedChannelBackpressure ==
    /\ [](Len(chan) <= channel_buffer_size)
    /\ [][(pc = "send" /\ rx = "open" /\ Len(chan) = channel_buffer_size)
             => /\ pc' = "send"
                /\ pending' = pending
                /\ pos' = pos
                /\ sent' = sent
                /\ frames' = frames
                /\ (chan' # chan => Len(chan') < Len(chan))]_vars

\* C10 witness: the channel is full and the producer is suspended in a push.
C10_Witness ==
    /\ Len(chan) = channel_buffer_size
    /\ pc = "send"
    /\ rx = "open"

\* the sentinel frames extracted so far
NumSentinelFrames == Cardinality({i \in 1..Len(frames) : IsSentinelFrame(frames[i])})

\* C11: the consumer delivers the items in the order the producer pushed
\* them, one frame `data: <payload>\n\n` per Ok item, none merged, dropped,
\* repeated or reordered; an error item ends the body with no frame for it
\* and none after it.
C11_InOrderOneFramePerItem ==
    /\ [](/\ Len(delivered) <= Len(sent)
          /\ \A i \in 1..Len(delivered) :
                sent[i].ok /\ delivered[i] = sse_frame(sent[i].v)
          /\ rx = "open"
                => /\ ~send_failed
                   /\ Len(sent) = Len(delivered) + Len(chan)
                   /\ \A j \in 1..Len(chan) : chan[j] = sent[Len(delivered) + j]
          /\ rx = "aborted"
                => /\ Len(sent) > Len(delivered)
                   /\ IsError(sent[Len(delivered) + 1]))
    /\ [][rx # "open" => delivered' = delivered]_vars
    /\ [][delivered' # delivered
             => /\ chan # <<>>
                /\ delivered' = Append(delivered, sse_frame(Head(chan).v))
                /\ chan' = Tail(chan)]_vars

\* C11 witness: two records were delivered in order and the error item that
\* followed them ended the body.
C11_Witness ==
    /\ rx = "aborted"
    /\ Len(delivered) = 2
    /\ Len(sent) = 3

\* C12: a Final is pushed only for a decoded sentinel line; when the
\* transport ends without one the producer exits pushing nothing, and the
\* caller gets the Partials produced so far and then the end of the body.
C12_NoSyntheticFinal ==
    /\ [](NumFinals + (IF pc = "send" /\ IsFinal(pending) THEN 1 ELSE 0)
             <= NumSentinelFrames)
    /\ []((rx = "ended" /\ NumSentinelFrames = 0)
             => /\ Len(delivered) = Len(sent)
                /\ \A i \in 1..Len(delivered) : ~delivered[i][2].done)
    /\ [][(pc = "read" /\ pc' = "done")
             => (sent' = sent /\ pending' = pending /\ chan' = chan)]_vars

\* C12 witness: the transport ended with no sentinel line, a Partial was
\* delivered and the body ended.
C12_Witness ==
    /\ rx = "ended"
    /\ NumSentinelFrames = 0
    /\ Len(delivered) >= 1
    /\ pos = Len(upstream)
    /\ ~ErrorSent

\* a line the producer drops: no `data: ` prefix, or a payload that is
\* neither the sentinel nor a parsable chunk whose first choice has a delta
Ignorable(line) ==
    \/ ~has_data_prefix(line)
    \/ /\ ~IsSentinelFrame(line)
       /\ parse_delta(strip_data_prefix(line)).kind # "delta"
Actionable(line) == ~Ignorable(line)

\* the item the producer pushes for an actionable line
ItemOfFrame(line) ==
    IF IsSentinelFrame(line)
    THEN OkItem(create_done_chunk(model_name))
    ELSE OkItem(create_streaming_chunk(model_name,
                                       parse_delta(strip_data_prefix(line)).content,
                                       parse_delta(strip_data_prefix(line)).role,
                                       is_chat))

\* the Ok items handed to tx.send so far, the one being pushed included
OkItemsPushed ==
    SelectSeq(sent, LAMBDA it : it.ok)
        \o (IF pc = "send" /\ pending.ok THEN <<pending>> ELSE <<>>)

\* C14: a complete line without the `data: ` prefix, with an unparsable
\* payload or without a delta in its first choice produces no item and no
\* error; the producer stays in its line loop, and the items pushed are those
\* of the other lines, as if the line had not been there.
C14_IgnorableLinesProduceNothing ==
    /\ [][(Len(frames') = Len(frames) + 1 /\ Ignorable(frames'[Len(frames')]))
             => /\ sent' = sent
                /\ pending' = pending
                /\ chan' = chan
                /\ pos' = pos
                /\ pc' = "scan"]_vars
    /\ [](LET A == SelectSeq(frames, Actionable)
          IN OkItemsPushed = [i \in 1..Len(A) |-> ItemOfFrame(A[i])])

\* C14 witness: an ignorable line was followed by a delta frame, whose
\* Partial was pushed.
C14_Witness ==
    /\ Len(frames) = 2
    /\ Ignorable(frames[1])
    /\ Actionable(frames[2])
    /\ Len(sent) = 1
    /\ IsPartial(sent[1])
    /\ pc = "read"

\* stream.next() resolves: the transport yields a chunk, an error or its end
TransportYields == ReadChunk \/ ReadError \/ ReadEnd

\* the producer task's next step, and the response body's next step
ProducerStep == TransportYields \/ ScanLine \/ SendOk \/ SendClosed
ConsumerStep == Recv \/ RecvEnd

\* a chat request for "mistral:latest": termination does not depend on the
\* mode or the model, which only label the records
InitChat ==
    /\ Init
    /\ is_chat
    /\ model_name = translate_model_name("mistral:latest")

\* The runtime keeps polling the producer task and the response body, and the
\* transport delivers its finitely many chunks and then ends.  The caller's
\* disconnection is not forced.
FairSpec ==
    /\ InitChat
    /\ [][Next]_vars
    /\ WF_vars(ProducerStep)
    /\ WF_vars(ConsumerStep)

\* C13: with finitely many chunks and a consumer that keeps draining, the
\* producer task eventually returns and the consumer eventually sees the end
\* of the stream; it sees it only after the producer has exited and every
\* queued item has been delivered.
C13_EventuallyClosedNothingLost ==
    /\ <>(pc = "done")
    /\ ([](rx # "disconnected") => <>(rx \in {"ended", "aborted"}))
    /\ [](rx = "ended"
            => /\ pc = "done"
               /\ chan = <<>>
               /\ Len(delivered) = Len(sent))

\* C13 witness: the producer has returned, both queued records were
\* delivered and the consumer has seen the end of the stream.
C13_Witness ==
    /\ rx = "ended"
    /\ pc = "done"
    /\ Len(delivered) = 2

\* a streaming request whose backend sends frames of FrameVocabulary
InitFrames ==
    /\ upstream \in FrameStreamsOf(MaxLines)
    /\ pos = 0
    /\ chunk_start = 0
    /\ is_chat \in BOOLEAN
    /\ \E m \in RequestModels : model_name = translate_model_name(m)
    /\ buffer = <<>>
    /\ pc = "read"
    /\ resume = "read"
    /\ pending = NoItem
    /\ chan = <<>>
    /\ rx = "open"
    /\ sent = <<>>
    /\ send_failed = FALSE
    /\ delivered = <<>>
    /\ frames = <<>>
    /\ backend = "success"
    /\ response = StreamResponse
    /\ api = NoCall
    /\ SingleRequest

SpecFrames == InitFrames /\ [][Next]_vars

\* a data frame whose first choice has a delta with content and no role
IsRoleLessDelta(line) ==
    has_data_prefix(line) /\ is_chunk_json(skip_ws(strip_data_prefix(line)), "R")

\* C15: a data frame whose first choice carries a delta with content but no
\* role is forwarded as one Partial with that content and an empty role.
C15_RoleLessDeltaForwarded ==
    [][(Len(frames') = Len(frames) + 1 /\ IsRoleLessDelta(frames'[Len(frames')]))
          => LET j == skip_ws(strip_data_prefix(frames'[Len(frames')])) IN
             /\ pc' = "send"
             /\ pending' = OkItem(create_streaming_chunk(model_name,
                                                         SubSeq(j, 2, Len(j) - 1),
                                                         "", is_chat))]_vars

\* the scenario of C16: one delta frame with only choices[0].delta
\* {role: assistant, content: Hello}, then the sentinel line
HelloScenario == DeltaHello \o DoneLine

\* C16: chat request for "mistral:latest", the Hello frame (cut anywhere)
\* and then `data: [DONE]`: the caller receives exactly a Partial with
\* message {assistant, Hello} and a Final with model "mistral:latest".
C16_HelloThenDone ==
    (/\ upstream = HelloScenario
     /\ is_chat
     /\ model_name = translate_model_name("mistral:latest")
     /\ pos = Len(upstream)
     /\ rx = "ended")
        => /\ Len(delivered) = 2
           /\ ~delivered[1][2].done
           /\ delivered[1][2].message = [role |-> "assistant", content |-> <<"Hel", "lo">>]
           /\ delivered[2][2].done
           /\ delivered[2][2].model = "mistral:latest"

\* ------------------------------------------------- the handler's initial call
\* handle_streaming_request before it has called the backend: no channel, no
\* producer, nothing returned
InitHandler ==
    /\ upstream \in StreamsOf(MaxLines)
    /\ pos = 0
    /\ chunk_start = 0
    /\ is_chat \in BOOLEAN
    /\ \E m \in RequestModels : model_name = translate_model_name(m)
    /\ buffer = <<>>
    /\ pc = "call"
    /\ resume = "read"
    /\ pending = NoItem
    /\ chan = <<>>
    /\ rx = "none"
    /\ sent = <<>>
    /\ send_failed = FALSE
    /\ delivered = <<>>
    /\ frames = <<>>
    /\ backend = "pending"
    /\ response = NoResponse
    /\ api = NoCall
    /\ SingleRequest

\* client.post(..).send().await fails: the `?` returns the RequestError
BackendUnreachable ==
    /\ pc = "call"
    /\ \E source \in ConnectErrors :
          response' = into_response(request_error(chat_url, source))
    /\ backend' = "unreachable"
    /\ pc' = "failed"
    /\ UNCHANGED <<pair_vars, metric_vars, api, upstream, pos, chunk_start, is_chat, model_name, buffer, resume,
                   pending, chan, rx, sent, send_failed, delivered, frames>>

\* mutant of BackendRejects: the status is not looked at and the error body is
\* streamed like an answer
BackendRejects_StreamsAnyway ==
    /\ pc = "call"
    /\ backend' = "rejected"
    /\ response' = StreamResponse
    /\ pc' = "read"
    /\ rx' = "open"
    /\ UNCHANGED <<pair_vars, metric_vars, api, upstream, pos, chunk_start, is_chat, model_name, buffer, resume,
                   pending, chan, sent, send_failed, delivered, frames>>

\* the backend answers with a non-success status: its body becomes the message
\* of a StreamingError, returned before anything else is set up
BackendRejects ==
    /\ pc = "call"
    /\ \E error_text \in ErrorTexts :
          response' = into_response(streaming_error(error_text, chat_url))
    /\ backend' = "rejected"
    /\ pc' = "failed"
    /\ UNCHANGED <<pair_vars, metric_vars, api, upstream, pos, chunk_start, is_chat, model_name, buffer, resume,
                   pending, chan, rx, sent, send_failed, delivered, frames>>

\* success status: headers built, channel created, producer spawned, response
\* returned (no await between them)
BackendAccepts ==
    /\ pc = "call"
    /\ backend' = "success"
    /\ response' = StreamResponse
    /\ pc' = "read"
    /\ rx' = "open"
    /\ UNCHANGED <<pair_vars, metric_vars, api, upstream, pos, chunk_start, is_chat, model_name, buffer, resume,
                   pending, chan, sent, send_failed, delivered, frames>>

NextHandler ==
    \/ BackendUnreachable
    \/ BackendRejects
    \/ BackendAccepts
    \/ Next

SpecHandler == InitHandler /\ [][NextHandler]_vars

ProducerExists == pc \in {"read", "scan", "send", "done"}

IsStructuredError(r) ==
    /\ DOMAIN r = {"status", "error"}
    /\ r.status \in {BAD_GATEWAY, INTERNAL_SERVER_ERROR}

\* C17: when the initial backend call fails to connect or is answered with a
\* non-success status, the handler has returned a structured error (502 with
\* the connection failure, 500 with the backend's error text), and there is no
\* producer, no channel, no event-stream headers and no record, then and ever
\* after; a producer or a channel exists only after a success status.
C17_FailedCallNeverStreams ==
    /\ backend \in {"unreachable", "rejected"} =>
          /\ IsStructuredError(response)
          /\ response.status = IF backend = "unreachable" THEN BAD_GATEWAY
                               ELSE INTERNAL_SERVER_ERROR
          /\ ~ProducerExists
          /\ rx = "none" /\ chan = <<>>
          /\ pos = 0 /\ sent = <<>> /\ delivered = <<>> /\ frames = <<>>
    /\ (ProducerExists \/ rx # "none") => backend = "success" /\ response = StreamResponse
    /\ backend = "pending" => response = NoResponse /\ ~ProducerExists /\ rx = "none"

C17_Witness ==
    /\ backend = "rejected"
    /\ response = into_response(streaming_error("model not found", chat_url))
    /\ pc = "failed"

\* ------------------------------------------------------- names and model list
MaxModels == 3

\* sizes in units of 1 000 000 bytes
MODEL_7B_SIZE == 4100
MODEL_8X7B_SIZE == 47000
MODEL_70B_SIZE == 40000
DEFAULT_MODEL_SIZE == MODEL_7B_SIZE

\* the client-facing names translate_model_name has an arm for
MappingTable == {"mistral:latest", "mistral:7b", "mixtral:latest", "mixtral:8x7b"}

ClientNames == MappingTable \cup {"custom-model", "llama2:13b"}

\* identifiers a backend may list
BackendIds == {"mistral-7b", "mixtral-8x7b", "custom-model",
               "custom-mixtral-8x7b-finetune", "llama-70b"}

\* the text of an identifier, cut where a size marker starts or ends
IdText(id) ==
    CASE id = "mistral-7b" -> <<"mistral-", "7b">>
      [] id = "mixtral-8x7b" -> <<"mixtral-", "8x", "7b">>
      [] id = "custom-mixtral-8x7b-finetune" -> <<"custom-mixtral-", "8x", "7b", "-finetune">>
      [] id = "llama-70b" -> <<"llama-", "70b">>
      [] OTHER -> <<id>>

\* str::contains for a pattern given as pieces
contains(id, pat) ==
    LET t == IdText(id) IN
    \E i \in 1..Len(t) : i + Len(pat) - 1 <= Len(t) /\ SubSeq(t, i, i + Len(pat) - 1) = pat

estimate_model_size(model_id) ==
    IF contains(model_id, <<"7b">>) THEN MODEL_7B_SIZE
    ELSE IF contains(model_id, <<"8x", "7b">>) THEN MODEL_8X7B_SIZE
    ELSE IF contains(model_id, <<"70b">>) THEN MODEL_70B_SIZE
    ELSE DEFAULT_MODEL_SIZE

\* mutant of model_id_to_name: no arm for the known identifiers
model_id_to_name_NoTable(id) == id \o ":latest"

\* the name the model list shows for a backend identifier
model_id_to_name(id) ==
    IF id = "mistral-7b" THEN "mistral:latest"
    ELSE IF id = "mixtral-8x7b" THEN "mixtral:latest"
    ELSE id \o ":latest"

\* modified_at is the time of the call and is left out
OllamaModel(name, size, digest) == [name |-> name, size |-> size, digest |-> digest]

default_models ==
    << OllamaModel("mistral:latest", MODEL_7B_SIZE, "default"),
       OllamaModel("mistral:7b", MODEL_7B_SIZE, "default") >>

ollama_models(data) ==
    [i \in 1..Len(data) |->
        OllamaModel(model_id_to_name(data[i]), estimate_model_size(data[i]),
                    "sha256:" \o data[i])]

models_url == mistral_url \o "/v1/models"

ModelLists == UNION {[1..n -> BackendIds] : n \in 0..MaxModels}

\* no streaming request is in flight while the operations below are called
InitApi ==
    /\ upstream = <<>>
    /\ pos = 0
    /\ chunk_start = 0
    /\ is_chat = FALSE
    /\ model_name = ""
    /\ buffer = <<>>
    /\ pc = "idle"
    /\ resume = "read"
    /\ pending = NoItem
    /\ chan = <<>>
    /\ rx = "none"
    /\ sent = <<>>
    /\ send_failed = FALSE
    /\ delivered = <<>>
    /\ frames = <<>>
    /\ backend = "pending"
    /\ response = NoResponse
    /\ api = NoCall
    /\ SingleRequest

stream_vars == <<upstream, pos, chunk_start, is_chat, model_name, buffer, pc, resume, pending,
                 chan, rx, sent, send_failed, delivered, frames, backend, response,
                 cur, other, handlers, ACTIVE_REQUESTS, HTTP_REQUESTS_TOTAL>>

\* ------------------------------------------------------ synchronous requests
None == [some |-> FALSE]

Some(v) == [some |-> TRUE, v |-> v]

\* mutant of convert_mistral_to_ollama_chat: the default message has no role
convert_mistral_to_ollama_chat_NoDefaultRole(mistral_response, model) ==
    LET choices == mistral_response.choices
        message == IF choices # <<>> /\ choices[1].message.some
                   THEN [role |-> choices[1].message.v.role,
                         content |-> choices[1].message.v.content]
                   ELSE [role |-> "", content |-> ""]
        usage == mistral_response.usage
    IN  [model |-> model, message |-> message, done |-> TRUE,
         total_duration |-> None, load_duration |-> None,
         prompt_eval_count |-> IF usage.some THEN Some(usage.v.prompt_tokens) ELSE None,
         prompt_eval_duration |-> None,
         eval_count |-> IF usage.some THEN Some(usage.v.completion_tokens) ELSE None,
         eval_duration |-> None]

\* created_at is the time of the call and is left out
convert_mistral_to_ollama_chat(mistral_response, model) ==
    LET choices == mistral_response.choices
        message == IF choices # <<>> /\ choices[1].message.some
                   THEN [role |-> choices[1].message.v.role,
                         content |-> choices[1].message.v.content]
                   ELSE [role |-> "assistant", content |-> ""]
        usage == mistral_response.usage
    IN  [model |-> model, message |-> message, done |-> TRUE,
         total_duration |-> None, load_duration |-> None,
         prompt_eval_count |-> IF usage.some THEN Some(usage.v.prompt_tokens) ELSE None,
         prompt_eval_duration |-> None,
         eval_count |-> IF usage.some THEN Some(usage.v.completion_tokens) ELSE None,
         eval_duration |-> None]

convert_mistral_to_ollama_generate(mistral_response, model) ==
    LET choices == mistral_response.choices
        content == IF choices # <<>> /\ choices[1].message.some
                   THEN choices[1].message.v.content
                   ELSE ""
        usage == mistral_response.usage
    IN  [model |-> model, response |-> content, done |-> TRUE, context |-> None,
         total_duration |-> None, load_duration |-> None,
         prompt_eval_count |-> IF usage.some THEN Some(usage.v.prompt_tokens) ELSE None,
         prompt_eval_duration |-> None,
         eval_count |-> IF usage.some THEN Some(usage.v.completion_tokens) ELSE None,
         eval_duration |-> None]

MistralMessages ==
    {[role |-> "assistant", content |-> "Hello"], [role |-> "tool", content |-> ""]}

MistralChoices ==
    {[index |-> 0, message |-> m, delta |-> None] : m \in {None} \cup {Some(x) : x \in MistralMessages}}

MistralUsages ==
    {None, Some([prompt_tokens |-> 3, completion_tokens |-> 5, total_tokens |-> 8])}

\* bodies the backend may answer a non-streaming request with
MistralChatResponses ==
    {[choices |-> c, usage |-> u] :
        c \in {<<>>} \cup {<<x>> : x \in MistralChoices}
                     \cup {<<x, y>> : x \in MistralChoices, y \in {[index |-> 1, message |-> Some([role |-> "assistant", content |-> "second"]), delta |-> None]}},
        u \in MistralUsages}

\* handle_sync_request: the POST cannot be sent or answered
SyncUnreachable ==
    /\ pc = "idle"
    /\ \E chat \in BOOLEAN, name \in RequestModels, source \in ConnectErrors :
          api' = [op |-> "sync", is_chat |-> chat, model |-> translate_model_name(name),
                  backend |-> "unreachable", arg |-> source,
                  out |-> into_response(request_error(chat_url, source))]
    /\ UNCHANGED stream_vars

\* handle_sync_request: non-success status; the body is read and logged
SyncRejected ==
    /\ pc = "idle"
    /\ \E chat \in BOOLEAN, name \in RequestModels, error_text \in ErrorTexts :
          api' = [op |-> "sync", is_chat |-> chat, model |-> translate_model_name(name),
                  backend |-> "rejected", arg |-> error_text,
                  out |-> into_response(internal_error("Mistral API returned non-success status"))]
    /\ UNCHANGED stream_vars

\* handle_sync_request: success status, but the body is no MistralChatResponse
SyncUndecodable ==
    /\ pc = "idle"
    /\ \E chat \in BOOLEAN, name \in RequestModels :
          api' = [op |-> "sync", is_chat |-> chat, model |-> translate_model_name(name),
                  backend |-> "undecodable", arg |-> <<>>,
                  out |-> into_response(request_error(chat_url, "error decoding response body"))]
    /\ UNCHANGED stream_vars

\* handle_sync_request: the answer is converted for the mode of the request
SyncOk ==
    /\ pc = "idle"
    /\ \E chat \in BOOLEAN, name \in RequestModels, mistral_response \in MistralChatResponses :
          LET model == translate_model_name(name) IN
          api' = [op |-> "sync", is_chat |-> chat, model |-> model,
                  backend |-> "ok", arg |-> mistral_response,
                  out |-> [status |-> STATUS_OK,
                           body |-> IF chat
                                    THEN convert_mistral_to_ollama_chat(mistral_response, model)
                                    ELSE convert_mistral_to_ollama_generate(mistral_response, model)]]
    /\ UNCHANGED stream_vars

\* handle_generate / handle_chat put the translated name in the backend request
TranslateModelName ==
    /\ pc = "idle"
    /\ \E name \in ClientNames :
          api' = [op |-> "translate_model_name", arg |-> name,
                  out |-> translate_model_name(name)]
    /\ UNCHANGED stream_vars

\* handle_list_models: the GET cannot be sent or answered
ListModelsUnreachable ==
    /\ pc = "idle"
    /\ \E source \in ConnectErrors :
          api' = [op |-> "list_models", backend |-> "unreachable", arg |-> <<>>,
                  out |-> into_response(request_error(models_url, source))]
    /\ UNCHANGED stream_vars

\* handle_list_models: the backend answers with a non-success status
ListModelsRejected ==
    /\ pc = "idle"
    /\ api' = [op |-> "list_models", backend |-> "rejected", arg |-> <<>>,
               out |-> [status |-> STATUS_OK, models |-> default_models]]
    /\ UNCHANGED stream_vars

\* handle_list_models: success status, but the body is no MistralModelsResponse
ListModelsUndecodable ==
    /\ pc = "idle"
    /\ api' = [op |-> "list_models", backend |-> "undecodable", arg |-> <<>>,
               out |-> into_response(request_error(models_url, "error decoding response body"))]
    /\ UNCHANGED stream_vars

\* handle_list_models: the backend lists data
ListModelsOk ==
    /\ pc = "idle"
    /\ \E data \in ModelLists :
          api' = [op |-> "list_models", backend |-> "ok", arg |-> data,
                  out |-> [status |-> STATUS_OK, models |-> ollama_models(data)]]
    /\ UNCHANGED stream_vars

\* ---------------------------------------------------------- request options
\* A JSON integer is written as the four 16-bit limbs of its i64 two's
\* complement form, most significant first; an i32 as two limbs.
I64(l3, l2, l1, l0) == [t |-> "int", limbs |-> <<l3, l2, l1, l0>>]

\* a JSON integer above i64::MAX (serde_json keeps it as u64)
BigInt == [t |-> "u64", limbs |-> <<32768, 0, 0, 0>>]

JsonFloat == [t |-> "float", v |-> "0.7"]

JsonString == [t |-> "string", v |-> "many"]

Absent == [t |-> "absent"]

JsonIntegers ==
    { I64(0, 0, 0, 0), I64(0, 0, 0, 42), I64(0, 0, 0, 100),
      I64(0, 0, 32767, 65535),              \* i32::MAX
      I64(0, 0, 32768, 0),                  \* i32::MAX + 1
      I64(0, 1, 0, 5),                      \* 2^32 + 5
      I64(65535, 65535, 65535, 65535),      \* -1
      I64(65535, 65535, 32768, 0),          \* i32::MIN
      I64(65535, 65535, 32767, 65535),      \* i32::MIN - 1
      BigInt }

OptionKeys == {"temperature", "top_p", "num_predict", "seed", "top_k"}

ValuesOf(key) ==
    CASE key \in {"num_predict", "seed"} -> JsonIntegers \cup {JsonFloat, JsonString, Absent}
      [] key = "temperature" -> {JsonFloat, JsonString, Absent}
      [] key = "top_p" -> {JsonFloat, Absent}
      [] OTHER -> {I64(0, 0, 0, 40), Absent}

\* req.options: missing, a JSON value that is no object, or an object
OptionMaps ==
    {None, Some(JsonString)}
        \cup {Some([t |-> "object", fields |-> f]) :
                 f \in {g \in [OptionKeys -> UNION {ValuesOf(k) : k \in OptionKeys}] :
                           \A k \in OptionKeys : g[k] \in ValuesOf(k)}}

\* Value::get
get(opts, key) ==
    IF opts.t = "object" /\ opts.fields[key] # Absent THEN Some(opts.fields[key]) ELSE None

\* Value::as_f64 followed by `as f32`
as_f32(v) ==
    IF v.some /\ v.v.t \in {"float", "int", "u64"} THEN Some([f32 |-> v.v]) ELSE None

\* Value::as_i64
as_i64(v) == IF v.some /\ v.v.t = "int" THEN Some(v.v.limbs) ELSE None

\* `v as i32` on an i64: the low 32 bits are kept
as_i32(v) == IF v.some THEN Some(<<v.v[3], v.v[4]>>) ELSE None

extract_ollama_parameters(options) ==
    IF options.some
    THEN LET opts == options.v IN
         [temperature |-> as_f32(get(opts, "temperature")),
          top_p |-> as_f32(get(opts, "top_p")),
          max_tokens |-> as_i32(as_i64(get(opts, "num_predict"))),
          random_seed |-> as_i32(as_i64(get(opts, "seed")))]
    ELSE [temperature |-> None, top_p |-> None, max_tokens |-> None, random_seed |-> None]

\* handle_generate / handle_chat read the options of the request
ExtractParameters ==
    /\ pc = "idle"
    /\ \E options \in OptionMaps :
          api' = [op |-> "extract_ollama_parameters", arg |-> options,
                  out |-> extract_ollama_parameters(options)]
    /\ UNCHANGED stream_vars

NextApi ==
    \/ ExtractParameters
    \/ SyncUnreachable
    \/ SyncRejected
    \/ SyncUndecodable
    \/ SyncOk
    \/ TranslateModelName
    \/ ListModelsUnreachable
    \/ ListModelsRejected
    \/ ListModelsUndecodable
    \/ ListModelsOk

SpecApi == InitApi /\ [][NextApi]_vars

LatestNames == {"mistral:latest", "mixtral:latest"}

\* C18 as stated: for every name x of the client-to-backend table, mapping x to
\* its backend identifier and that identifier back to a client-facing name
\* returns x.
C18_RoundTripIsIdentity ==
    (api.op = "translate_model_name" /\ api.arg \in MappingTable)
        => model_id_to_name(api.out) = api.arg

\* C18 amended: the round trip returns x for mistral:latest and mixtral:latest;
\* for the aliases mistral:7b and mixtral:8x7b it returns the ":latest" name of
\* the same family, which maps to the same backend identifier as x.
C18_RoundTripReturnsLatestAlias ==
    (api.op = "translate_model_name" /\ api.arg \in MappingTable)
        => LET back == model_id_to_name(api.out) IN
           /\ back \in LatestNames
           /\ translate_model_name(back) = api.out
           /\ api.arg \in LatestNames => back = api.arg
           /\ api.arg = "mistral:7b" => back = "mistral:latest"
           /\ api.arg = "mixtral:8x7b" => back = "mixtral:latest"

C18_Witness ==
    /\ api.op = "translate_model_name"
    /\ api.arg = "mixtral:8x7b"
    /\ api.out = "mixtral-8x7b"

KnownIds == {"mistral-7b", "mixtral-8x7b"}

\* C19: a name in neither mapping table is returned unchanged by the
\* client-to-backend mapping, and unchanged by the backend-to-client mapping.
C19_UnknownNamesUnchanged ==
    /\ (api.op = "translate_model_name" /\ api.arg \notin MappingTable)
          => api.out = api.arg
    /\ (api.op = "list_models" /\ api.backend = "ok")
          => \A i \in 1..Len(api.arg) :
                api.arg[i] \notin KnownIds => api.out.models[i].name = api.arg[i]

\* C20: whenever the backend model-listing call fails, by connection failure as
\* well as by non-success status, the handler answers 200 with the two-entry
\* fallback list and propagates no error.
C20_FallbackOnAnyFailure ==
    (api.op = "list_models" /\ api.backend \in {"unreachable", "rejected"})
        => api.out = [status |-> STATUS_OK, models |-> default_models]

\* C21: for any model identifier that contains "8x7b", the size the model
\* listing estimates is the 8x7b constant and not the 7b/default constant.
C21_Size8x7b ==
    (api.op = "list_models" /\ api.backend = "ok")
        => \A i \in 1..Len(api.arg) :
              contains(api.arg[i], <<"8x", "7b">>)
                  => api.out.models[i].size = MODEL_8X7B_SIZE

NoUsableChoice(mistral_response) ==
    \/ mistral_response.choices = <<>>
    \/ ~mistral_response.choices[1].message.some

\* C22: the non-streaming translator is total: for a backend response with no
\* choices, or whose first choice has no message, the answer is a 200 whose
\* body has done = TRUE, the message {assistant, ""} in chat mode and an empty
\* response string in generate mode, the prompt and completion token counts
\* copied when usage is present, and every duration field unset.
C22_TranslatorTotal ==
    (api.op = "sync" /\ api.backend = "ok" /\ NoUsableChoice(api.arg))
        => LET b == api.out.body
               u == api.arg.usage IN
           /\ api.out.status = STATUS_OK
           /\ b.done
           /\ IF api.is_chat
              THEN b.message = [role |-> "assistant", content |-> ""]
              ELSE b.response = "" /\ "message" \notin DOMAIN b
           /\ b.prompt_eval_count = (IF u.some THEN Some(u.v.prompt_tokens) ELSE None)
           /\ b.eval_count = (IF u.some THEN Some(u.v.completion_tokens) ELSE None)
           /\ b.total_duration = None /\ b.load_duration = None
           /\ b.prompt_eval_duration = None /\ b.eval_duration = None

C22_Witness ==
    /\ api.op = "sync" /\ api.backend = "ok" /\ api.is_chat
    /\ api.arg.choices = <<>> /\ api.arg.usage.some
    /\ api.out.body.message.role = "assistant"

Carries(r, text) == \E i \in 1..Len(r.error) : r.error[i] = text

\* C24: when the backend answers the initial request with a non-success
\* status, the error returned to the caller is an internal/gateway error that
\* carries the backend's status text, in the synchronous path as well as in
\* the streaming path.
C24_RejectionCarriesBackendText ==
    /\ backend = "rejected"
          => /\ IsStructuredError(response)
             /\ \E error_text \in ErrorTexts : Carries(response, error_text)
    /\ (api.op = "sync" /\ api.backend = "rejected")
          => /\ IsStructuredError(api.out)
             /\ Carries(api.out, api.arg)

PartialShapeOk(v, chat) ==
    IF chat
    THEN /\ DOMAIN v = {"model", "message", "done"}
         /\ DOMAIN v.message = {"role", "content"}
         /\ ~v.done
    ELSE /\ DOMAIN v = {"model", "response", "done"}
         /\ ~v.done

\* every record of the stream so far: pushed, being pushed, or delivered
RecordsOfStream ==
    {sent[i].v : i \in {j \in 1..Len(sent) : sent[j].ok}}
        \cup (IF pc = "send" /\ pending.ok THEN {pending.v} ELSE {})
        \cup {delivered[i][2] : i \in 1..Len(delivered)}

\* C23: every Partial of a chat request nests role and content under
\* `message` with done = FALSE; every Partial of a generate request carries
\* the content in a flat `response` with done = FALSE and no `message`; the
\* mode is fixed when the request is accepted and never changes afterwards.
C23_PartialShapeFollowsMode ==
    /\ [](\A v \in RecordsOfStream : ~v.done => PartialShapeOk(v, is_chat))
    /\ [][is_chat' = is_chat]_vars

C23_Witness ==
    /\ ~is_chat
    /\ Len(delivered) = 2
    /\ ~delivered[1][2].done /\ ~delivered[2][2].done
    /\ "response" \in DOMAIN delivered[2][2]

NumNewlines(text) == Cardinality({i \in 1..Len(text) : text[i] = "\n"})

\* the bytes received after the last newline
UnterminatedTail(text) ==
    LET nl == {i \in 1..Len(text) : text[i] = "\n"} IN
    IF nl = {} THEN text
    ELSE SubSeq(text, (CHOOSE i \in nl : \A j \in nl : j <= i) + 1, Len(text))

\* C27: bytes received after the last newline are never turned into a frame
\* if the transport then ends: there are never more frames or records than
\* newline-terminated lines received, the end of the transport pushes and
\* decodes nothing, and a finished producer stays as it is; so an
\* unterminated `data: [DONE]` or delta at the end yields no record.
C27_UnterminatedTailDropped ==
    /\ [](/\ Len(frames) <= NumNewlines(Fed)
          /\ Len(OkItemsPushed) <= NumNewlines(Fed))
    /\ [][(pc = "read" /\ pc' = "done")
             => /\ frames' = frames /\ sent' = sent /\ pending' = pending
                /\ chan' = chan /\ delivered' = delivered]_vars
    /\ [][pc = "done" => (pc' = "done" /\ frames' = frames /\ sent' = sent)]_vars

C27_Witness ==
    /\ pc = "done" /\ rx = "ended"
    /\ Fed = DeltaA \o <<"H", " ", "D">>
    /\ UnterminatedTail(Fed) = <<"H", " ", "D">>
    /\ Len(delivered) = 1 /\ ~delivered[1][2].done
    /\ ~FinalSent /\ ~ErrorSent

\* C28: overflow is decided on the whole buffer right after each append, with
\* a strict comparison: a read aborts the stream if and only if the bytes left
\* over from earlier chunks plus the new chunk exceed the ceiling; a buffer
\* exactly at the ceiling is accepted and scanned; the records pushed from
\* earlier chunks stay ahead of the error item.
C28_OverflowIffBytesExceedCeiling ==
    [][pos' > pos
         => LET left == UnterminatedTail(Fed)
                chunk == SubSeq(upstream, pos + 1, pos')
                over == ByteLen(left) + ByteLen(chunk) > max_line_length
            IN /\ sent' = sent
               /\ IF over
                  THEN pc' = "send" /\ pending' = OverflowItem /\ resume' = "exit"
                  ELSE pc' = "scan" /\ pending' = pending]_vars

\* the i64 an i32 stands for
SignExtend(w) ==
    IF w[1] >= 32768 THEN <<65535, 65535, w[1], w[2]>> ELSE <<0, 0, w[1], w[2]>>

IsJsonInteger(v) == v.t \in {"int", "u64"}

\* the parameter equals the integer given under the key, and is absent when
\* the key is missing or its value is no number
IntegerCopied(options, key, param) ==
    LET given == IF options.some THEN get(options.v, key) ELSE None IN
    IF given.some /\ IsJsonInteger(given.v)
    THEN param.some /\ given.v.t = "int" /\ SignExtend(param.v) = given.v.limbs
    ELSE param = None

WithoutOtherKeys(options) ==
    IF options.some /\ options.v.t = "object"
    THEN Some([t |-> "object", fields |-> [options.v.fields EXCEPT !["top_k"] = Absent]])
    ELSE options

\* C29: max_tokens and random_seed equal the integers given under
\* options.num_predict and options.seed for every integer the caller can
\* supply; a missing options map, a missing key or a non-numeric value yields
\* an absent parameter; keys other than temperature, top_p, num_predict and
\* seed never influence the result.
C29_IntegerOptionsCopied ==
    api.op = "extract_ollama_parameters"
        => /\ IntegerCopied(api.arg, "num_predict", api.out.max_tokens)
           /\ IntegerCopied(api.arg, "seed", api.out.random_seed)
           /\ ~api.arg.some
                 => api.out = [temperature |-> None, top_p |-> None,
                               max_tokens |-> None, random_seed |-> None]
           /\ api.out = extract_ollama_parameters(WithoutOtherKeys(api.arg))

\* ------------------------------------------------ two requests at the same time
\* the request the per-request variables hold at the moment, as one value
Cur ==
    [upstream |-> upstream, pos |-> pos, chunk_start |-> chunk_start, is_chat |-> is_chat,
     model_name |-> model_name, buffer |-> buffer, pc |-> pc, resume |-> resume,
     pending |-> pending, chan |-> chan, rx |-> rx, sent |-> sent,
     send_failed |-> send_failed, delivered |-> delivered, frames |-> frames]

\* a streaming request whose producer has just been spawned
NewRequest(bytes, chat, model) ==
    [upstream |-> bytes, pos |-> 0, chunk_start |-> 0, is_chat |-> chat,
     model_name |-> model, buffer |-> <<>>, pc |-> "read", resume |-> "read",
     pending |-> NoItem, chan |-> <<>>, rx |-> "open", sent |-> <<>>,
     send_failed |-> FALSE, delivered |-> <<>>, frames |-> <<>>]

\* what the two backends answer
PairStreams == {<<DeltaA \o DoneLine, DeltaA>>}

\* an accepted chat request and an accepted generate request, each with the
\* buffer and the channel its handler created
InitPair ==
    /\ \E st \in PairStreams :
          /\ upstream = st[1]
          /\ is_chat = TRUE
          /\ model_name = translate_model_name("mistral:latest")
          /\ other = NewRequest(st[2], FALSE, translate_model_name("custom-model"))
    /\ pos = 0
    /\ chunk_start = 0
    /\ buffer = <<>>
    /\ pc = "read"
    /\ resume = "read"
    /\ pending = NoItem
    /\ chan = <<>>
    /\ rx = "open"
    /\ sent = <<>>
    /\ send_failed = FALSE
    /\ delivered = <<>>
    /\ frames = <<>>
    /\ backend = "success"
    /\ response = StreamResponse
    /\ api = NoCall
    /\ cur = 1
    /\ handlers = <<>>
    /\ ACTIVE_REQUESTS = 0
    /\ HTTP_REQUESTS_TOTAL = ZeroCounts

\* mutant of Switch: one buffer serves both requests
Switch_SharedBuffer ==
    /\ other # NoRequest
    /\ other' = Cur
    /\ cur' = 3 - cur
    /\ upstream' = other.upstream
    /\ pos' = other.pos
    /\ chunk_start' = other.chunk_start
    /\ is_chat' = other.is_chat
    /\ model_name' = other.model_name
    /\ buffer' = buffer
    /\ pc' = other.pc
    /\ resume' = other.resume
    /\ pending' = other.pending
    /\ chan' = other.chan
    /\ rx' = other.rx
    /\ sent' = other.sent
    /\ send_failed' = other.send_failed
    /\ delivered' = other.delivered
    /\ frames' = other.frames
    /\ UNCHANGED <<metric_vars, api, backend, response>>

\* the runtime turns to the other request: its task and its body stream run
\* on the locals of their own handler call
Switch ==
    /\ other # NoRequest
    /\ other' = Cur
    /\ cur' = 3 - cur
    /\ upstream' = other.upstream
    /\ pos' = other.pos
    /\ chunk_start' = other.chunk_start
    /\ is_chat' = other.is_chat
    /\ model_name' = other.model_name
    /\ buffer' = other.buffer
    /\ pc' = other.pc
    /\ resume' = other.resume
    /\ pending' = other.pending
    /\ chan' = other.chan
    /\ rx' = other.rx
    /\ sent' = other.sent
    /\ send_failed' = other.send_failed
    /\ delivered' = other.delivered
    /\ frames' = other.frames
    /\ UNCHANGED <<metric_vars, api, backend, response>>

NextPair ==
    \/ Switch
    \/ Next

SpecPair == InitPair /\ [][NextPair]_vars

IsPrefix(a, b) == Len(a) <= Len(b) /\ a = SubSeq(b, 1, Len(a))

IsSuffix(a, b) == Len(a) <= Len(b) /\ a = SubSeq(b, Len(b) - Len(a) + 1, Len(b))

\* the item pushed for an actionable line of a request of that model and mode
ItemOfFrameFor(line, model, chat) ==
    IF IsSentinelFrame(line)
    THEN OkItem(create_done_chunk(model))
    ELSE OkItem(create_streaming_chunk(model,
                                       parse_delta(strip_data_prefix(line)).content,
                                       parse_delta(strip_data_prefix(line)).role,
                                       chat))

\* everything request q holds follows from its own transport, mode and model
OwnInputOnly(q) ==
    LET fed == SubSeq(q.upstream, 1, q.pos)
        A == SelectSeq(q.frames, Actionable)
        pushed == SelectSeq(q.sent, LAMBDA it : it.ok)
                     \o (IF q.pc = "send" /\ q.pending.ok THEN <<q.pending>> ELSE <<>>)
    IN /\ IsSuffix(q.buffer, from_utf8_lossy(fed))
       /\ IsPrefix(q.frames, AllLines(from_utf8_lossy(fed)))
       /\ pushed = [i \in 1..Len(A) |-> ItemOfFrameFor(A[i], q.model_name, q.is_chat)]
       /\ Len(q.delivered) <= Len(q.sent)
       /\ \A i \in 1..Len(q.delivered) :
             q.sent[i].ok /\ q.delivered[i] = sse_frame(q.sent[i].v)
       /\ q.rx = "open"
             => /\ Len(q.sent) = Len(q.delivered) + Len(q.chan)
                /\ \A j \in 1..Len(q.chan) : q.chan[j] = q.sent[Len(q.delivered) + j]

\* C25: two streaming requests in flight at the same time share no buffer and
\* no channel: under every interleaving, the buffer, the frames, the items
\* pushed and the records delivered for each request follow from that
\* request's own transport chunks, mode and model, as when it runs alone.
C25_RequestsIsolated == OwnInputOnly(Cur) /\ (other # NoRequest => OwnInputOnly(other))

C25_Witness ==
    /\ other # NoRequest
    /\ pc \in {"read", "scan", "send"} /\ other.pc \in {"read", "scan", "send"}
    /\ rx = "open" /\ other.rx = "open"
    /\ Len(delivered) = 1 /\ Len(other.delivered) = 1
    /\ delivered[1] # other.delivered[1]

\* ------------------------------------------------------------------- metrics
MaxRequests == 2

IdleHandler == [at |-> "idle"]

\* how the awaited handle_streaming_request / handle_sync_request can end
Outcomes(stream) ==
    IF stream THEN {"success", "unreachable", "rejected"}
    ELSE {"success", "unreachable", "rejected", "undecodable"}

\* the Result the awaited call returns for an outcome
result_of(outcome, stream) ==
    CASE outcome = "success" -> "Ok"
      [] outcome = "rejected" -> IF stream THEN "StreamingError" ELSE "InternalError"
      [] OTHER -> "RequestError"

\* no streaming state is followed while handlers are counted
InitMetrics ==
    /\ upstream = <<>>
    /\ pos = 0
    /\ chunk_start = 0
    /\ is_chat = FALSE
    /\ model_name = ""
    /\ buffer = <<>>
    /\ pc = "idle"
    /\ resume = "read"
    /\ pending = NoItem
    /\ chan = <<>>
    /\ rx = "none"
    /\ sent = <<>>
    /\ send_failed = FALSE
    /\ delivered = <<>>
    /\ frames = <<>>
    /\ backend = "pending"
    /\ response = NoResponse
    /\ api = NoCall
    /\ cur = 1
    /\ other = NoRequest
    /\ handlers = [h \in 1..MaxRequests |-> IdleHandler]
    /\ ACTIVE_REQUESTS = 0
    /\ HTTP_REQUESTS_TOTAL = ZeroCounts

unmetered_vars ==
    <<upstream, pos, chunk_start, is_chat, model_name, buffer, pc, resume, pending, chan, rx,
      sent, send_failed, delivered, frames, backend, response, api, cur, other>>

\* handle_generate / handle_chat from entry to the await of the backend call
HandlerEnter(h) ==
    /\ handlers[h].at = "idle"
    /\ ACTIVE_REQUESTS' = ACTIVE_REQUESTS + 1
    /\ \E endpoint \in Endpoints, stream \in BOOLEAN :
          handlers' = [handlers EXCEPT ![h] =
                          [at |-> "awaiting", endpoint |-> endpoint, stream |-> stream]]
    /\ UNCHANGED <<HTTP_REQUESTS_TOTAL, unmetered_vars>>

\* mutant of HandlerResume: an Err of the awaited call is returned at once
HandlerResume_ReturnsErrEarly(h) ==
    /\ handlers[h].at = "awaiting"
    /\ \E outcome \in Outcomes(handlers[h].stream) :
          LET result == result_of(outcome, handlers[h].stream) IN
          /\ handlers' = [handlers EXCEPT ![h] =
                [at |-> IF result = "Ok" THEN "counting" ELSE "returned",
                 endpoint |-> handlers[h].endpoint, stream |-> handlers[h].stream,
                 outcome |-> outcome, result |-> result]]
          /\ ACTIVE_REQUESTS' = IF result = "Ok" THEN ACTIVE_REQUESTS - 1 ELSE ACTIVE_REQUESTS
    /\ UNCHANGED <<HTTP_REQUESTS_TOTAL, unmetered_vars>>

\* the awaited call returns Ok or Err; the gauge is lowered
HandlerResume(h) ==
    /\ handlers[h].at = "awaiting"
    /\ \E outcome \in Outcomes(handlers[h].stream) :
          handlers' = [handlers EXCEPT ![h] =
                [at |-> "counting", endpoint |-> handlers[h].endpoint,
                 stream |-> handlers[h].stream, outcome |-> outcome,
                 result |-> result_of(outcome, handlers[h].stream)]]
    /\ ACTIVE_REQUESTS' = ACTIVE_REQUESTS - 1
    /\ UNCHANGED <<HTTP_REQUESTS_TOTAL, unmetered_vars>>

\* the match on the result: one increment of the counter, then the return
HandlerCount(h) ==
    /\ handlers[h].at = "counting"
    /\ LET status == IF handlers[h].result = "Ok" THEN "success" ELSE "error"
           label == <<handlers[h].endpoint, status>>
       IN HTTP_REQUESTS_TOTAL' = [HTTP_REQUESTS_TOTAL EXCEPT ![label] = @ + 1]
    /\ handlers' = [handlers EXCEPT ![h].at = "returned"]
    /\ UNCHANGED <<ACTIVE_REQUESTS, unmetered_vars>>

\* the caller goes away while the handler awaits the backend: the future is
\* dropped and nothing after the await runs
HandlerDropped(h) ==
    /\ handlers[h].at = "awaiting"
    /\ handlers' = [handlers EXCEPT ![h].at = "dropped"]
    /\ UNCHANGED <<ACTIVE_REQUESTS, HTTP_REQUESTS_TOTAL, unmetered_vars>>

NextMetrics ==
    \E h \in 1..MaxRequests :
        \/ HandlerEnter(h)
        \/ HandlerResume(h)
        \/ HandlerCount(h)
        \/ HandlerDropped(h)

SpecMetrics == InitMetrics /\ [][NextMetrics]_vars

\* handlers past their increment whose decrement has not run
BetweenIncAndDec == {h \in DOMAIN handlers : handlers[h].at \in {"awaiting", "dropped"}}

\* handlers that ran to completion with that endpoint and outcome class
Completed(endpoint, status) ==
    {h \in DOMAIN handlers :
        /\ handlers[h].at = "returned"
        /\ handlers[h].endpoint = endpoint
        /\ (handlers[h].outcome = "success") <=> (status = "success")}

\* C26: every generate or chat request whose handler runs to completion,
\* whether the backend call succeeded or failed, has incremented
\* HTTP_REQUESTS_TOTAL exactly once, under success or error for its endpoint,
\* and has left ACTIVE_REQUESTS as it was; under any interleaving
\* ACTIVE_REQUESTS is never negative and equals the number of handlers between
\* their increment and their decrement (a handler dropped at its await never
\* reaches the decrement and stays counted).
C26_MetricsBalanced ==
    /\ ACTIVE_REQUESTS >= 0
    /\ ACTIVE_REQUESTS = Cardinality(BetweenIncAndDec)
    /\ \A l \in Labels : HTTP_REQUESTS_TOTAL[l] = Cardinality(Completed(l[1], l[2]))
    /\ (\A h \in DOMAIN handlers : handlers[h].at \in {"idle", "returned"})
          => ACTIVE_REQUESTS = 0

C26_Witness ==
    /\ handlers[1].at = "returned" /\ handlers[1].outcome = "unreachable"
    /\ handlers[1].endpoint = "generate"
    /\ handlers[2].at = "awaiting"
    /\ ACTIVE_REQUESTS = 1
    /\ HTTP_REQUESTS_TOTAL[<<"generate", "error">>] = 1

====
